---------------------------- MODULE Spec2Model ----------------------------
(***************************************************************************)
(* A model of transformEphemeralPlugin: the Babel visitor that rewrites    *)
(* every call  ephemeral({k1: v1, ..., kn: vn})  into a hoisted            *)
(*   const _genEphemeralObj<i> = {k1: void 0, ..., kn: void 0}             *)
(* plus the updates  _genEphemeralObj<i>.kj = vj  and a reference.         *)
(*                                                                         *)
(* The syntax tree is a table of nodes (a sequence indexed by node id).    *)
(*   - kids   is the node's children in document order (for a Program or   *)
(*            BlockStatement: its body list; for a function: the default   *)
(*            values of its parameters, then its body);                    *)
(*   - parent is what the plugin reads as  path.context.parentPath .       *)
(* A statement that only carries an expression (return, const x = ...,     *)
(* export const x = ..., yield, a bare expression) is one node of type     *)
(* ExpressionStatement: the host's insertBefore treats them alike when     *)
(* they sit in a statement list.                                           *)
(***************************************************************************)
EXTENDS Integers, Sequences, FiniteSets, TLC

\* Largest number of functions, blocks and calls in one source unit.
MaxNodes == 3
\* Largest number of members of the object literal handed to ephemeral().
MaxFields == 2

Undefined == 0

KeyName(i) == <<"a", "b", "c", "d", "e">>[i]

FunctionTypes ==
  {"FunctionDeclaration", "FunctionExpression", "ArrowFunctionExpression"}

\* t.isStatement: the node types of the model that Babel lists as Statement.
StatementTypes ==
  {"FunctionDeclaration", "BlockStatement", "ExpressionStatement",
   "VariableDeclaration"}

\* The predicate handed to getParentOfType by getInsertScope.
InsertScopeTypes == FunctionTypes \cup {"Program"}

(***************************************************************************)
(* Source units.  A descriptor is the nested form of a piece of source; it *)
(* is turned into the node table by Parse.                                 *)
(***************************************************************************)
Desc(type) ==
  [type |-> type, generator |-> FALSE, callee |-> "", params |-> <<>>,
   body |-> <<>>, arguments |-> <<>>]

\* One member of an object literal.  nested holds the value when the value
\* is modelled (a call or a function), and is empty for an opaque value.
Member(type, keyType, computed, i, nested) ==
  [type |-> type, key |-> [type |-> keyType, name |-> KeyName(i)],
   computed |-> computed, nested |-> nested]

PlainMember(i, nested) ==
  Member("ObjectProperty", "Identifier", FALSE, i, nested)

\* The kinds of member of the validation cases:  k: v,  [k]: v,  "k": v,
\* 1: v,  [a + b]: v,  ...rest  and  k() {} .
MemberKinds ==
  { <<"ObjectProperty", "Identifier", FALSE>>,
    <<"ObjectProperty", "Identifier", TRUE>>,
    <<"ObjectProperty", "StringLiteral", FALSE>>,
    <<"ObjectProperty", "NumericLiteral", FALSE>>,
    <<"ObjectProperty", "BinaryExpression", TRUE>>,
    <<"SpreadElement", "None", FALSE>>,
    <<"ObjectMethod", "Identifier", FALSE>> }

ObjectArg(members) == [type |-> "ObjectExpression", properties |-> members]

IdentifierArg == [type |-> "Identifier", properties |-> <<>>]

CallDesc(callee, arguments) ==
  [Desc("CallExpression") EXCEPT !.callee = callee, !.arguments = arguments]

\* ephemeral({a: v1, ..., : vn}) with opaque values.
PlainCall(n) ==
  CallDesc("ephemeral", <<ObjectArg([i \in 1..n |-> PlainMember(i, <<>>)])>>)

\* ephemeral({a: v1, ..., kj: <e>, ...}): the j-th value is the expression e.
NestingCall(n, j, e) ==
  CallDesc("ephemeral",
    <<ObjectArg([i \in 1..n |->
        PlainMember(i, IF i = j THEN <<e>> ELSE <<>>)])>>)

\* ephemeral(obj): the argument is not an object literal.
BadCall == CallDesc("ephemeral", <<IdentifierArg>>)

MemberLists(n) ==
  { [i \in 1..n |-> Member(f[i][1], f[i][2], f[i][3], i, <<>>)] :
      f \in [1..n -> MemberKinds] }

\* The calls of the validation cases: every combination of member kinds, the
\* wrong argument counts and kinds, and callees that are not the marker.
ShapeCalls ==
  { CallDesc("ephemeral", <<ObjectArg(ms)>>) :
      ms \in UNION { MemberLists(n) : n \in 0..MaxFields } }
  \cup { CallDesc("ephemeral", <<>>),
         BadCall,
         CallDesc("ephemeral", <<ObjectArg(<<PlainMember(1, <<>>)>>),
                                 IdentifierArg>>),
         CallDesc("other", <<ObjectArg(<<PlainMember(1, <<>>)>>)>>),
         CallDesc("MemberExpression",
                  <<ObjectArg(<<PlainMember(1, <<>>)>>)>>) }

ExprStmt(e) == [Desc("ExpressionStatement") EXCEPT !.body = <<e>>]

\* A function: params holds the default value of its parameter, if any; body
\* is a statement list (a block body) or, for an arrow function, possibly
\* one expression.
FuncDesc(type, generator, params, body) ==
  [Desc(type) EXCEPT !.generator = generator, !.params = params,
                     !.body = body]

RECURSIVE ExprsOfSize(_), StmtsOfSize(_), ListsOfSize(_), FuncsOfSize(_, _)

\* The functions of the given types with k nodes in all.
FuncsOfSize(types, k) ==
  IF k < 2 THEN {}
  ELSE UNION { UNION {
    LET ps == IF kp = 0 THEN {<<>>}
              ELSE { <<e>> : e \in ExprsOfSize(kp) }
        kb == k - 1 - kp
        blocks == { <<[Desc("BlockStatement") EXCEPT !.body = l]>> :
                      l \in ListsOfSize(kb) }
        exprs  == IF type = "ArrowFunctionExpression" /\ kb > 0
                  THEN { <<e>> : e \in ExprsOfSize(kb) } ELSE {}
        gens   == IF type = "ArrowFunctionExpression"
                  THEN {FALSE} ELSE BOOLEAN
    IN { FuncDesc(type, g, p, b) :
           g \in gens, p \in ps, b \in blocks \cup exprs }
    : kp \in 0..(k - 1) } : type \in types }

ExprsOfSize(k) ==
  IF k < 1 THEN {}
  ELSE (IF k = 1 THEN { PlainCall(1), BadCall }
        ELSE { NestingCall(2, 2, e) : e \in ExprsOfSize(k - 1) })
       \cup FuncsOfSize({"FunctionExpression", "ArrowFunctionExpression"}, k)

StmtsOfSize(k) ==
  { ExprStmt(e) : e \in ExprsOfSize(k) }
  \cup FuncsOfSize({"FunctionDeclaration"}, k)
  \cup { [Desc("BlockStatement") EXCEPT !.body = l] :
           l \in IF k < 2 THEN {} ELSE ListsOfSize(k - 1) }

ListsOfSize(k) ==
  IF k = 0 THEN { <<>> }
  ELSE UNION { { <<s>> \o l : s \in StmtsOfSize(j), l \in ListsOfSize(k - j) } :
                 j \in 1..k }

\* The source units of the structural cases: every arrangement of at most
\* MaxNodes functions, blocks and calls.
StructPrograms == UNION { ListsOfSize(k) : k \in 1..MaxNodes }

\* The source units of the validation cases: function fn() { return <call> }
ShapePrograms ==
  { << FuncDesc("FunctionDeclaration", FALSE, <<>>,
         <<[Desc("BlockStatement") EXCEPT !.body = <<ExprStmt(c)>>]>>) >> :
      c \in ShapeCalls }

Programs == StructPrograms \cup ShapePrograms

(***************************************************************************)
(* The node table.                                                         *)
(***************************************************************************)
NoKey == [type |-> "None", name |-> ""]

\* A node with every attribute at its default.  name is the <i> of
\* _genEphemeralObj<i> (on the declaration, the updates and the reference);
\* site is the call a generated node was made for.
Node(type, parent) ==
  [type |-> type, parent |-> parent, generator |-> FALSE, kids |-> <<>>,
   callee |-> "", arguments |-> <<>>, kind |-> "", name |-> -1,
   site |-> 0, properties |-> <<>>, key |-> NoKey, computed |-> FALSE,
   right |-> 0]

RECURSIVE Flatten(_)
Flatten(ss) == IF ss = <<>> THEN <<>> ELSE Head(ss) \o Flatten(Tail(ss))

\* The modelled values of a call's members, in document order.
NestedOf(arguments) ==
  Flatten([i \in 1..Len(arguments) |->
    Flatten([j \in 1..Len(arguments[i].properties) |->
      arguments[i].properties[j].nested])])

ChildDescs(d) ==
  IF d.type = "CallExpression" THEN NestedOf(d.arguments)
  ELSE d.params \o d.body

\* The arguments of a call as the table holds them: a member's value is the
\* id of the node of its value, or -j for the opaque value of the j-th member.
TableArguments(arguments, kids) ==
  [i \in 1..Len(arguments) |->
    [type |-> arguments[i].type,
     properties |->
       [j \in 1..Len(arguments[i].properties) |->
         LET m == arguments[i].properties[j]
             before == Len(NestedOf(SubSeq(arguments, 1, i - 1)))
                       + Len(Flatten([h \in 1..j |->
                               arguments[i].properties[h].nested]))
         IN [type |-> m.type, key |-> m.key, computed |-> m.computed,
             value |-> IF m.nested = <<>> THEN 0 - j ELSE kids[before]]]]]

RECURSIVE AddNode(_, _, _), AddKids(_, _, _)

\* The table a with the subtree of descriptor d appended under parent; the
\* new node's id is Len(a) + 1, so ids follow document order.
AddNode(a, parent, d) ==
  LET id == Len(a) + 1
      a1 == Append(a, [Node(d.type, parent) EXCEPT
                         !.generator = d.generator, !.callee = d.callee])
      a2 == AddKids(a1, id, ChildDescs(d))
  IN [a2 EXCEPT ![id].arguments = TableArguments(d.arguments, a2[id].kids)]

AddKids(a, id, ds) ==
  IF ds = <<>> THEN a
  ELSE LET kid == Len(a) + 1
           a1 == AddNode(a, id, Head(ds))
       IN AddKids([a1 EXCEPT ![id].kids = Append(@, kid)], id, Tail(ds))

\* The tree of a source unit: node 1 is the Program.
Parse(program) ==
  AddNode(<<>>, Undefined, [Desc("Program") EXCEPT !.body = program])

RECURSIVE Preorder(_, _)
\* The nodes of the subtree of n, in document order.
Preorder(a, n) ==
  <<n>> \o Flatten([i \in 1..Len(a[n].kids) |-> Preorder(a, a[n].kids[i])])

Range(s) == { s[i] : i \in 1..Len(s) }

Descendants(a, n) == Range(Preorder(a, n))

IndexOf(s, x) == CHOOSE i \in 1..Len(s) : s[i] = x

\* a comes before b in the text of the program.
Precedes(a, x, y) ==
  LET order == Preorder(a, 1)
  IN IndexOf(order, x) < IndexOf(order, y)

\* The node whose kids hold n (the root has none).
Container(a, n) == CHOOSE p \in 1..Len(a) : n \in Range(a[p].kids)

\* The call expressions of a tree, in the order the traversal meets them.
CallsOf(a) == SelectSeq(Preorder(a, 1), LAMBDA n : a[n].type = "CallExpression")

(***************************************************************************)
(* The state of one run of the plugin over one source unit.                *)
(***************************************************************************)
VARIABLES
  src,           \* the tree as parsed, before any edit
  ast,           \* the tree, edited in place
  queue,         \* the call expressions the traversal has still to enter
  idGenWeakMap,  \* insert scope -> next id of getTempVarName
  console,       \* what reportError wrote to console.error
  history,       \* what enter did at each call, in the order of the visits
  thrown         \* a TypeError left the visitor: the run is aborted

vars == <<src, ast, queue, idGenWeakMap, console, history, thrown>>

ShapeMessage ==
  "ephmemeral() should have exactly 1 argument, consisting of an object literal."
MembersMessage ==
  "ephmemeral() should be called with an object without methods or spread values."
KeysMessage ==
  "ephmemeral() should be called with an object with only plain keys."

\* const id = idGenWeakMap.get(scope) ?? 0
NextId(map, scope) == IF scope \in DOMAIN map THEN map[scope] ELSE 0

\* getTempVarName with one counter for the whole run instead of one for each
\* insert scope: the counter is kept under the Program, whatever the scope.
getTempVarNameOneCounter(map, scope) ==
  [name |-> NextId(map, 1),
   map  |-> [k \in DOMAIN map \cup {1} |-> NextId(map, 1) + 1]]

\* getTempVarName: the id that names the variable, and the map afterwards.
getTempVarName(map, scope) ==
  [name |-> NextId(map, scope),
   map  |-> [k \in DOMAIN map \cup {scope} |->
               IF k = scope THEN NextId(map, scope) + 1 ELSE map[k]]]

RECURSIVE getParentOfType(_, _, _)
\* The nearest ancestor of path whose type is in matches.  Past the Program
\* parentPath is undefined, and the next recursion reads  undefined.context :
\* the result Undefined stands for that TypeError.
getParentOfType(a, path, matches) ==
  LET parentPath == a[path].parent
  IN IF parentPath = Undefined THEN Undefined
     ELSE IF a[parentPath].type \in matches THEN parentPath
     ELSE getParentOfType(a, parentPath, matches)

getInsertScope(a, path) == getParentOfType(a, path, InsertScopeTypes)

getStatementParent(a, path) == getParentOfType(a, path, StatementTypes)

\* The early returns of enter that report nothing: the callee is not the
\* identifier ephemeral.
IsMarkerCall(node) ==
  node.type = "CallExpression" /\ node.callee = "ephemeral"

\* The three checks of enter, in order: the message of the first that fails,
\* or "" when the call passes.
ValidationError(node) ==
  IF Len(node.arguments) # 1 \/ node.arguments[1].type # "ObjectExpression"
  THEN ShapeMessage
  ELSE LET properties == node.arguments[1].properties
       IN IF ~ \A i \in 1..Len(properties) :
                 properties[i].type = "ObjectProperty"
          THEN MembersMessage
          ELSE IF ~ \A i \in 1..Len(properties) :
                      properties[i].key.type = "Identifier"
          THEN KeysMessage
          ELSE ""

\* variableDeclaration("const", [variableDeclarator(declName, {k: void 0})])
VariableDeclaration(path, properties, name) ==
  [Node("VariableDeclaration", Undefined) EXCEPT
     !.kind = "const", !.name = name, !.site = path,
     !.properties =
       [i \in 1..Len(properties) |->
         [key |-> [type |-> "Identifier", name |-> properties[i].key.name],
          computed |-> FALSE, value |-> "void 0"]]]

\* assignmentExpression("=", memberExpression(declName, prop.key), prop.value)
\* for every member, in the order of the object literal.
PropUpdateExpressions(path, properties, name) ==
  [i \in 1..Len(properties) |->
    [Node("AssignmentExpression", Undefined) EXCEPT
       !.name = name, !.site = path, !.key = properties[i].key,
       !.computed = FALSE, !.right = properties[i].value,
       !.kids = IF properties[i].value > 0 THEN <<properties[i].value>>
                ELSE <<>>]]

InsertAt(s, i, new) == SubSeq(s, 1, i - 1) \o new \o SubSeq(s, i, Len(s))

NewIds(a, nodes) == [i \in 1..Len(nodes) |-> Len(a) + i]

WithParent(nodes, parent) ==
  [i \in 1..Len(nodes) |-> [nodes[i] EXCEPT !.parent = parent]]

\* path.unshiftContainer("body", nodes) on a block.
UnshiftContainer(a, block, nodes) ==
  [a EXCEPT ![block].kids = NewIds(a, nodes) \o @] \o WithParent(nodes, block)

\* The host's path.insertBefore(nodes) on a statement.  In a statement list
\* the nodes are spliced in before it.  A statement that is not in a list
\* (here: the block that is a function's body) is replaced by a new block
\* holding the nodes and then the old block; the path, and so the id, goes to
\* the new block, and the old block gets a new id.
InsertBefore(a, target, nodes) ==
  LET owner == Container(a, target)
  IN IF a[owner].type \in {"Program", "BlockStatement"}
     THEN [a EXCEPT ![owner].kids =
             InsertAt(@, IndexOf(a[owner].kids, target), NewIds(a, nodes))]
          \o WithParent(nodes, a[target].parent)
     ELSE LET inner == Len(a) + Len(nodes) + 1
          IN ([a EXCEPT ![target].kids = NewIds(a, nodes) \o <<inner>>]
              \o WithParent(nodes, target))
             \o << [a[target] EXCEPT !.parent = target] >>

\* Where enter puts the declaration: the table afterwards, or the TypeError
\* of a statement parent that does not exist.
InsertDeclaration(a, path, insertScope, declaration) ==
  LET insertParent ==
        IF a[insertScope].type \in StatementTypes
           \/ a[insertScope].type = "Program"
        THEN insertScope
        ELSE getStatementParent(a, insertScope)
  IN IF insertParent = Undefined
     THEN [thrown |-> TRUE, ast |-> a, insertParent |-> Undefined]
     ELSE LET insertNode == a[insertParent]
          IN IF insertNode.type = "FunctionDeclaration" /\ insertNode.generator
             THEN [thrown |-> FALSE, insertParent |-> insertParent,
                   ast |-> UnshiftContainer(a,
                             insertNode.kids[Len(insertNode.kids)],
                             <<declaration>>)]
             ELSE IF insertNode.type = "Program"
             THEN IF getStatementParent(a, path) = Undefined
                  THEN [thrown |-> TRUE, ast |-> a,
                        insertParent |-> insertParent]
                  ELSE [thrown |-> FALSE, insertParent |-> insertParent,
                        ast |-> InsertBefore(a, getStatementParent(a, path),
                                             <<declaration>>)]
             ELSE [thrown |-> FALSE, insertParent |-> insertParent,
                   ast |-> InsertBefore(a, insertParent, <<declaration>>)]

\* path.replaceWith(expressionStatement(declName)): the host unwraps the
\* statement where an expression stood, so the call becomes the identifier.
\* The values of the members now hang under the update expressions.
ReplaceWith(a, path, name, updates) ==
  [n \in 1..Len(a) |->
    IF n = path
    THEN [Node("Identifier", a[path].parent) EXCEPT
            !.name = name, !.site = path]
    ELSE IF \E i \in 1..Len(updates) : n \in Range(a[updates[i]].kids)
    THEN [a[n] EXCEPT !.parent =
            updates[CHOOSE i \in 1..Len(updates) :
                      n \in Range(a[updates[i]].kids)]]
    ELSE a[n]]

\* Everything enter does to a call that passed the checks.
Transform(a, map, path) ==
  LET properties   == a[path].arguments[1].properties
      insertScope  == getInsertScope(a, path)
      temp         == getTempVarName(map, insertScope)
      declaration  == VariableDeclaration(path, properties, temp.name)
      placed       == InsertDeclaration(a, path, insertScope, declaration)
      a1           == placed.ast
      statementParent == getStatementParent(a1, path)
      exprs        == PropUpdateExpressions(path, properties, temp.name)
      updates      == NewIds(a1, exprs)
      done         == ~ placed.thrown /\ statementParent # Undefined
      base ==
        [path |-> path, insertScope |-> insertScope, name |-> temp.name,
         insertParent |-> placed.insertParent,
         statementParent |-> statementParent, message |-> ""]
  IN IF done
     THEN [thrown |-> FALSE, map |-> temp.map,
           ast |-> ReplaceWith(InsertBefore(a1, statementParent, exprs),
                               path, temp.name, updates),
           entry |-> base @@ [result |-> "rewritten",
                              declaration |-> Len(a) + 1,
                              updates |-> updates]]
     ELSE [thrown |-> TRUE, map |-> temp.map, ast |-> a1,
           entry |-> base @@ [result |-> "threw",
                              declaration |->
                                IF placed.thrown THEN 0 ELSE Len(a) + 1,
                              updates |-> <<>>]]

\* The calls still to enter, after the members' values of path moved into the
\* update expressions: the host queues inserted nodes behind what is left of
\* the statement list they were inserted into.
Requeue(a, rest, path, updates) ==
  LET moved == UNION { Descendants(a, updates[i]) : i \in 1..Len(updates) }
      list  == IF updates = <<>> THEN {}
               ELSE Descendants(a, Container(a, updates[1]))
      IsMoved(n)  == n \in moved
      InList(n)   == n \in list /\ n \notin moved
      Outside(n)  == n \notin list /\ n \notin moved
  IN SelectSeq(rest, InList) \o SelectSeq(rest, IsMoved)
     \o SelectSeq(rest, Outside)

Entry(path, result, message) ==
  [path |-> path, result |-> result, message |-> message,
   insertScope |-> 0, name |-> -1, insertParent |-> 0,
   statementParent |-> 0, declaration |-> 0, updates |-> <<>>]

Init ==
  \E program \in Programs :
    /\ src = Parse(program)
    /\ ast = src
    /\ queue = CallsOf(src)
    /\ idGenWeakMap = << >>
    /\ console = << >>
    /\ history = << >>
    /\ thrown = FALSE

\* enter returns at once: the callee is not the identifier ephemeral.
EnterOther ==
  /\ ~ thrown /\ queue # << >>
  /\ ~ IsMarkerCall(ast[Head(queue)])
  /\ queue' = Tail(queue)
  /\ history' = Append(history, Entry(Head(queue), "ignored", ""))
  /\ UNCHANGED <<src, ast, idGenWeakMap, console, thrown>>

\* enter reports the first check that fails and returns.
EnterReport ==
  /\ ~ thrown /\ queue # << >>
  /\ IsMarkerCall(ast[Head(queue)])
  /\ ValidationError(ast[Head(queue)]) # ""
  /\ console' = Append(console,
        [path |-> Head(queue),
         message |-> ValidationError(ast[Head(queue)])])
  /\ history' = Append(history,
        Entry(Head(queue), "reported", ValidationError(ast[Head(queue)])))
  /\ queue' = Tail(queue)
  /\ UNCHANGED <<src, ast, idGenWeakMap, thrown>>

\* enter rewrites the call: declaration, updates, reference.
EnterRewrite ==
  /\ ~ thrown /\ queue # << >>
  /\ IsMarkerCall(ast[Head(queue)])
  /\ ValidationError(ast[Head(queue)]) = ""
  /\ LET t == Transform(ast, idGenWeakMap, Head(queue))
     IN /\ ~ t.thrown
        /\ ast' = t.ast
        /\ idGenWeakMap' = t.map
        /\ history' = Append(history, t.entry)
        /\ queue' = Requeue(t.ast, Tail(queue), Head(queue), t.entry.updates)
  /\ UNCHANGED <<src, console, thrown>>

\* enter dies in getParentOfType: the call has no statement above it.
EnterThrow ==
  /\ ~ thrown /\ queue # << >>
  /\ IsMarkerCall(ast[Head(queue)])
  /\ ValidationError(ast[Head(queue)]) = ""
  /\ LET t == Transform(ast, idGenWeakMap, Head(queue))
     IN /\ t.thrown
        /\ ast' = t.ast
        /\ idGenWeakMap' = t.map
        /\ history' = Append(history, t.entry)
  /\ thrown' = TRUE
  /\ UNCHANGED <<src, queue, console>>

\* CallExpression.enter, called by the host once for each call expression.
enter == EnterOther \/ EnterReport \/ EnterRewrite \/ EnterThrow

Next == enter

Spec == Init /\ [][Next]_vars

(***************************************************************************)
(* Vocabulary of the properties.                                           *)
(***************************************************************************)
Visits == 1..Len(history)

RewrittenVisits == { i \in Visits : history[i].result = "rewritten" }

\* The calls of the source whose callee is the identifier ephemeral.
MarkerCalls == { c \in 1..Len(src) : IsMarkerCall(src[c]) }

\* The members of the object literal of a call that has one.
Fields(c) == src[c].arguments[1].properties

HasObjectLiteral(c) ==
  Len(src[c].arguments) = 1 /\ src[c].arguments[1].type = "ObjectExpression"

DeclarationsOf(c) ==
  { n \in 1..Len(ast) : ast[n].type = "VariableDeclaration" /\ ast[n].site = c }

UpdatesOf(c) ==
  { n \in 1..Len(ast) :
      ast[n].type = "AssignmentExpression" /\ ast[n].site = c }

DiagnosticsOf(c) == { i \in 1..Len(console) : console[i].path = c }

\* The call is as it was in the source, apart from where it hangs.
Untouched(c) == [ast[c] EXCEPT !.parent = src[c].parent] = src[c]

\* d sits in the statement list of t, before t, with nothing but generated
\* declarations and updates between them.
ImmediatelyBefore(d, t) ==
  /\ Container(ast, d) = Container(ast, t)
  /\ LET list == ast[Container(ast, t)].kids
     IN /\ IndexOf(list, d) < IndexOf(list, t)
        /\ \A k \in (IndexOf(list, d) + 1)..(IndexOf(list, t) - 1) :
             ast[list[k]].site # 0

\* The body of a function: the last of its children.
BodyOf(f) == ast[f].kids[Len(ast[f].kids)]

IsGeneratorStyle(f) == src[f].type \in FunctionTypes /\ src[f].generator

(***************************************************************************)
(* C1.  Every call to ephemeral ends in one of two outcomes: rejected (the *)
(* call untouched, nothing inserted, exactly one diagnostic) or rewritten  *)
(* (one declaration, one update per field, the call replaced, no           *)
(* diagnostic); until it is entered it waits in a traversal that goes on.  *)
(***************************************************************************)
RejectedOutcome(c) ==
  /\ ValidationError(src[c]) # ""
  /\ Untouched(c)
  /\ DeclarationsOf(c) = {} /\ UpdatesOf(c) = {}
  /\ Cardinality(DiagnosticsOf(c)) = 1

RewrittenOutcome(c) ==
  /\ ValidationError(src[c]) = ""
  /\ Cardinality(DeclarationsOf(c)) = 1
  /\ Cardinality(UpdatesOf(c)) = Len(Fields(c))
  /\ ast[c].type = "Identifier"
  /\ DiagnosticsOf(c) = {}

Waiting(c) == c \in Range(queue) /\ ~ thrown /\ Untouched(c)

C1_RejectedOrRewritten ==
  \A c \in MarkerCalls :
    Waiting(c) \/ RejectedOutcome(c) \/ RewrittenOutcome(c)

\* What the code does keep of C1: no call is ever left with only some of the
\* three edits.
NoPartialEdit ==
  \A c \in MarkerCalls :
    \/ Untouched(c) /\ DeclarationsOf(c) = {} /\ UpdatesOf(c) = {}
    \/ RewrittenOutcome(c)

(***************************************************************************)
(* C2.  A call whose object literal has a key that is not a plain,         *)
(* non-computed identifier is rejected with the keys diagnostic; so every  *)
(* rewritten call has only non-computed identifier keys.                   *)
(***************************************************************************)
PlainKey(m) == m.key.type = "Identifier" /\ ~ m.computed

KeyKindViolation(c) ==
  /\ HasObjectLiteral(c)
  /\ \A j \in 1..Len(Fields(c)) : Fields(c)[j].type = "ObjectProperty"
  /\ \E j \in 1..Len(Fields(c)) : ~ PlainKey(Fields(c)[j])

C2_NonPlainKeysRejected ==
  \A i \in Visits :
    LET c == history[i].path
    IN /\ (IsMarkerCall(src[c]) /\ KeyKindViolation(c))
            => /\ history[i].result = "reported"
               /\ history[i].message = KeysMessage
               /\ Untouched(c)
       /\ history[i].result = "rewritten"
            => \A j \in 1..Len(Fields(c)) : PlainKey(Fields(c)[j])

(***************************************************************************)
(* C3.  For a rewritten call with fields k1: v1 .. kn: vn the declaration  *)
(* is a const with exactly the keys k1..kn in order, each void 0; there    *)
(* are n updates, the i-th being binding.ki = vi; and the call is replaced *)
(* by a reference to the same binding.                                     *)
(***************************************************************************)
C3_DeclarationAndUpdates ==
  \A i \in RewrittenVisits :
    LET c == history[i].path
        d == ast[history[i].declaration]
        us == history[i].updates
    IN /\ d.type = "VariableDeclaration" /\ d.kind = "const"
       /\ Len(d.properties) = Len(Fields(c))
       /\ \A j \in 1..Len(Fields(c)) :
            /\ d.properties[j].key = Fields(c)[j].key
            /\ d.properties[j].computed = Fields(c)[j].computed
            /\ d.properties[j].value = "void 0"
       /\ Len(us) = Len(Fields(c))
       /\ \A j \in 1..Len(us) :
            /\ ast[us[j]].type = "AssignmentExpression"
            /\ ast[us[j]].name = d.name
            /\ ast[us[j]].key = Fields(c)[j].key
            /\ ast[us[j]].computed = Fields(c)[j].computed
            /\ ast[us[j]].right = Fields(c)[j].value
            /\ j > 1 => Precedes(ast, us[j - 1], us[j])
       /\ ast[c].type = "Identifier" /\ ast[c].name = d.name

(***************************************************************************)
(* C4.  Ordinals are per scope anchor, start at 0 and grow with the        *)
(* visits: the i-th call rewritten under an anchor (from 0) is named       *)
(* _genEphemeralObj<i>, a call that fails validation uses up no ordinal,   *)
(* and two calls of one ordinary function declaration give two             *)
(* declarations, 0 and 1, both right before that function, in that order.  *)
(***************************************************************************)
RewrittenBefore(i) ==
  { j \in RewrittenVisits :
      j < i /\ history[j].insertScope = history[i].insertScope }

C4_OrdinalsPerAnchor ==
  /\ \A i \in RewrittenVisits :
       /\ history[i].name = Cardinality(RewrittenBefore(i))
       /\ ast[history[i].declaration].name = history[i].name
  /\ \A i \in Visits :
       history[i].result = "reported" =>
         \A j \in RewrittenVisits : history[j].name < Cardinality(RewrittenVisits)
  /\ \A i, j \in RewrittenVisits :
       (/\ i < j
        /\ history[i].insertScope = history[j].insertScope
        /\ src[history[i].insertScope].type = "FunctionDeclaration"
        /\ ~ src[history[i].insertScope].generator)
       => /\ history[i].declaration # history[j].declaration
          /\ ImmediatelyBefore(history[i].declaration, history[i].insertScope)
          /\ ImmediatelyBefore(history[j].declaration, history[j].insertScope)
          /\ Precedes(ast, history[i].declaration, history[j].declaration)

\* Two calls of one ordinary function declaration were rewritten as 0 and 1.
C4_Witness ==
  \E i, j \in RewrittenVisits :
    /\ i < j
    /\ history[i].insertScope = history[j].insertScope
    /\ src[history[i].insertScope].type = "FunctionDeclaration"
    /\ ~ src[history[i].insertScope].generator
    /\ history[i].name = 0 /\ history[j].name = 1

\* A call that failed validation was followed by a rewritten call, which got 0.
C4_WitnessAfterReport ==
  \E i, j \in Visits :
    /\ i < j
    /\ history[i].result = "reported"
    /\ history[j].result = "rewritten" /\ history[j].name = 0

(***************************************************************************)
(* C5.  The identifiers of one run are unique: no two declarations of the  *)
(* run carry the same name, and in particular no two declarations in one   *)
(* statement list do.                                                      *)
(***************************************************************************)
Declarations == { n \in 1..Len(ast) : ast[n].type = "VariableDeclaration" }

C5_UniqueIdentifiers ==
  \A d, e \in Declarations :
    d # e => /\ ~ (Container(ast, d) = Container(ast, e)
                   /\ ast[d].name = ast[e].name)
             /\ ast[d].name # ast[e].name

(***************************************************************************)
(* C6.  When the anchor of a rewritten call is a generator-style function  *)
(* (a declaration or an expression), the declaration is at the start of    *)
(* that function's own body, never above or outside the function.          *)
(***************************************************************************)
C6_GeneratorDeclarationInBody ==
  \A i \in RewrittenVisits :
    IsGeneratorStyle(history[i].insertScope) =>
      LET d == history[i].declaration
          list == ast[Container(ast, d)].kids
      IN /\ d \in Descendants(ast, BodyOf(history[i].insertScope))
         /\ \A k \in 1..(IndexOf(list, d) - 1) :
              ast[list[k]].type = "VariableDeclaration"

(***************************************************************************)
(* C7.  For an anchor that is not generator-style the declaration goes:    *)
(* (i) module root: right before the nearest statement above the call;     *)
(* (ii) a function declaration: right before it; (iii) a function          *)
(* expression or arrow: right before the nearest statement above the       *)
(* anchor, outside the inner function.                                     *)
(***************************************************************************)
C7_DeclarationPosition ==
  \A i \in RewrittenVisits :
    LET scope == history[i].insertScope
        d == history[i].declaration
    IN ~ IsGeneratorStyle(scope) =>
         /\ src[scope].type = "Program"
              => ImmediatelyBefore(d, history[i].statementParent)
         /\ src[scope].type = "FunctionDeclaration"
              => ImmediatelyBefore(d, scope)
         /\ src[scope].type \in {"FunctionExpression", "ArrowFunctionExpression"}
              => /\ ImmediatelyBefore(d, getStatementParent(ast, scope))
                 /\ d \notin Descendants(ast, scope)
         /\ Cardinality(DeclarationsOf(history[i].path)) = 1

(***************************************************************************)
(* C8.  The declaration of every binding comes, in program order, before   *)
(* every update of it and before the reference that replaced the call.     *)
(***************************************************************************)
C8_DeclarationFirst ==
  \A i \in RewrittenVisits :
    \A n \in Range(history[i].updates) \cup {history[i].path} :
      Precedes(ast, history[i].declaration, n)

(***************************************************************************)
(* C9.  The values are evaluated in their original order: the updates of   *)
(* a call stand right before the statement of the call, in field order,    *)
(* and when a field value is itself a rewritten call, the outer call's     *)
(* earlier values still come before the nested call's values.              *)
(***************************************************************************)
VisitOf(c) == CHOOSE i \in Visits : history[i].path = c

RECURSIVE StatementOf(_)
\* The nearest statement that holds n in the tree as it is now.
StatementOf(n) ==
  LET p == Container(ast, n)
  IN IF ast[p].type \in StatementTypes THEN p ELSE StatementOf(p)

IsRewritten(c) == \E i \in RewrittenVisits : history[i].path = c

C9_EvaluationOrder ==
  \A i \in RewrittenVisits :
    LET c == history[i].path
        us == history[i].updates
    IN /\ \A j \in 1..Len(us) : ImmediatelyBefore(us[j], StatementOf(c))
       /\ \A j \in 2..Len(us) : Precedes(ast, us[j - 1], us[j])
       /\ \A k \in 1..Len(us) :
            (Fields(c)[k].value > 0 /\ IsRewritten(Fields(c)[k].value)) =>
              \A j \in 1..(k - 1) :
                \A u \in Range(history[VisitOf(Fields(c)[k].value)].updates) :
                  Precedes(ast, us[j], u)

(***************************************************************************)
(* C10.  When the anchor of a rewritten call is a function, every update   *)
(* of the call is inside that function's body, wherever the call stood in  *)
(* the function (a statement of the body, the expression body of an arrow, *)
(* the default value of a parameter).                                      *)
(***************************************************************************)
C10_UpdatesInsideAnchor ==
  \A i \in RewrittenVisits :
    src[history[i].insertScope].type \in FunctionTypes =>
      \A u \in Range(history[i].updates) :
        /\ ast[BodyOf(history[i].insertScope)].type = "BlockStatement"
        /\ u \in Descendants(ast, BodyOf(history[i].insertScope))
=============================================================================
